---- MODULE Spec2Model ----
(***************************************************************************)
(* The automation job orchestration subsystem of the portal (otomasyon):   *)
(* local playbook executions (api_views.py, views.py, tasks.py,            *)
(* services.AnsibleService), the schedule trigger loop (tasks.py,          *)
(* services.ScheduleManager) and the Tower/AWX adapter                     *)
(* (services.AnsibleTowerService).                                         *)
(*                                                                         *)
(* The persistent store is the variables executions / playbooks /          *)
(* schedules / jobs.  Every handler works on an in-memory copy of a row    *)
(* (a Django model instance) and save() writes the whole copy back, so a    *)
(* handler is split at its database reads and writes: between them other   *)
(* web requests and Celery workers run.                                    *)
(***************************************************************************)
EXTENDS Integers, Sequences, FiniteSets, TLC

VARIABLES
    clock,        \* timezone.now(), in seconds since Epoch
    executions,   \* PlaybookExecution rows, indexed by primary key
    playbooks,    \* AnsiblePlaybook rows: the mutable statistics
    queue,        \* Celery messages execute_ansible_playbook.delay(id)
    reqs,         \* approve / cancel web requests, in flight or answered
    workers,      \* Celery workers running execute_ansible_playbook
    runs,         \* per execution: how often subprocess.run was called
    schedules,    \* AutomationSchedule rows
    ticks,        \* runs of process_scheduled_playbooks in progress
    fired,        \* per created execution: the occurrence that fired it
    calc,         \* a call of calculate_next_run and its result
    jobs,         \* AnsibleJobExecution rows, indexed by primary key
    tower,        \* the jobs of the Tower/AWX server, indexed by tower_job_id
    jreqs,        \* refresh / cancel web requests on job executions
    http,         \* per job execution: the requests sent to Tower for it
    launches,     \* calls of launch_job_template between create and POST
    tmpdirs,      \* executions a run of which returned and left its directory
    validation,   \* a call of validate_variables: arguments and result
    launch_call   \* a call of launch_job_template: arguments and launch_data

schedVars == <<schedules, ticks, fired, calc>>

towerVars == <<jobs, tower, jreqs, http, launches>>

vars == <<clock, executions, playbooks, queue, reqs, workers, runs,
          schedVars, towerVars, tmpdirs, validation, launch_call>>

-----------------------------------------------------------------------------
(* Bounds of the model *)

MaxSubmissions == 1   \* executions created by user submissions
MaxScheduled == 2     \* executions created by the trigger loop
MaxClock == 2         \* seconds the clock advances
MaxRequests == 2      \* concurrent approve / cancel requests
MaxWorkers == 2       \* concurrent Celery workers
MaxSchedulers == 2    \* concurrent runs of process_scheduled_playbooks
MaxJobs == 1          \* job templates launched on Tower
MaxPolls == 3         \* refresh requests per job execution
MaxJobRequests == 1   \* concurrent refresh / cancel requests on job executions
MaxCancels == 2       \* cancel requests sent to Tower per job execution
MaxCalls == 2         \* calls of calculate_next_run on one schedule

-----------------------------------------------------------------------------
(* Optional values: None and a present value *)

None == <<>>
Some(x) == <<x>>
IsSet(o) == o # <<>>
Val(o) == o[1]

-----------------------------------------------------------------------------
(* Users and playbooks in the store *)

Users == {"admin", "alice"}
is_staff(u) == u = "admin"

PlaybookIds == {"restart", "report"}

\* AnsiblePlaybook: requires_approval, allowed_users, required_variables
PlaybookDef(pb) ==
    IF pb = "restart"
    THEN [requires_approval |-> TRUE,  allowed_users |-> {"alice"},
          required_variables |-> <<"region">>]
    ELSE [requires_approval |-> FALSE, allowed_users |-> {},
          required_variables |-> <<>>]

-----------------------------------------------------------------------------
(* PlaybookValidator.validate_variables *)

\* A supplied "variables" value: a dict, a text (JSON of a dict, JSON of
\* something else, or not JSON), or any other JSON value (list, number).
DictVars(keys)    == [kind |-> "dict",  json |-> "dict",  keys |-> keys]
StrDictVars(keys) == [kind |-> "str",   json |-> "dict",  keys |-> keys]
StrOtherVars      == [kind |-> "str",   json |-> "other", keys |-> {}]
StrBadVars        == [kind |-> "str",   json |-> "bad",   keys |-> {}]
OtherVars         == [kind |-> "other", json |-> "other", keys |-> {}]

\* a check that stops at the first required variable that is missing
RECURSIVE FirstMissingVar(_, _)
FirstMissingVar(required_vars, keys) ==
    IF required_vars = <<>> THEN <<>>
    ELSE IF Head(required_vars) \in keys
         THEN FirstMissingVar(Tail(required_vars), keys)
         ELSE <<Head(required_vars)>>

\* services.py:237-240  the required variables that are no key of the dict
RECURSIVE MissingVars(_, _)
MissingVars(required_vars, keys) ==
    IF required_vars = <<>> THEN <<>>
    ELSE IF Head(required_vars) \in keys
         THEN MissingVars(Tail(required_vars), keys)
         ELSE <<Head(required_vars)>> \o MissingVars(Tail(required_vars), keys)

\* returns (ok, message): the message is one of five texts, and the text of
\* "missing" lists the names in missing
validate_variables(variables, required_vars) ==
    IF required_vars = <<>>
    THEN [ok |-> TRUE, message |-> "none_required", missing |-> <<>>]
    ELSE IF variables.kind = "str" /\ variables.json = "bad"
         THEN [ok |-> FALSE, message |-> "not_json", missing |-> <<>>]
    ELSE IF variables.json # "dict"
         THEN [ok |-> FALSE, message |-> "not_dict", missing |-> <<>>]
    ELSE LET m == MissingVars(required_vars, variables.keys)
         IN  IF m # <<>>
             THEN [ok |-> FALSE, message |-> "missing", missing |-> m]
             ELSE [ok |-> TRUE, message |-> "all_present", missing |-> <<>>]

NoValidation ==
    [pc |-> "idle", variables |-> OtherVars, required_vars |-> <<>>,
     result |-> [ok |-> TRUE, message |-> "", missing |-> <<>>]]

\* a caller evaluates PlaybookValidator.validate_variables on its arguments
ValidateApply ==
    /\ validation.pc = "idle"
    /\ validation' = [validation EXCEPT
           !.pc = "done",
           !.result = validate_variables(validation.variables, validation.required_vars)]
    /\ UNCHANGED <<clock, executions, playbooks, queue, reqs, workers, runs,
                   schedVars, towerVars, tmpdirs, launch_call>>

-----------------------------------------------------------------------------
(* PlaybookExecution rows *)

Terminal == {"completed", "failed", "cancelled", "timeout"}

NewExecution(pb, user, xid, variables, status) ==
    [playbook     |-> pb,
     executor     |-> user,
     execution_id |-> xid,
     variables    |-> variables,
     status       |-> status,
     started_at   |-> None,
     completed_at |-> None,
     return_code  |-> None,
     stderr       |-> "",
     approved_by  |-> None,
     approved_at  |-> None]

ExecutionIds == 1..Len(executions)

InitialStatus(pb) ==
    IF PlaybookDef(pb).requires_approval THEN "pending" ELSE "approved"

-----------------------------------------------------------------------------
(* Submission *)

SubmitVars == {DictVars({}), DictVars({"region"})}
FormVars   == {StrDictVars({})}

api_denied(pb, user) ==
    PlaybookDef(pb).allowed_users # {} /\ user \notin PlaybookDef(pb).allowed_users

\* api_views.api_execute_playbook
ApiExecutePlaybook(user, pb, variables) ==
    /\ Len(executions) < MaxSubmissions
    /\ IF api_denied(pb, user)
       THEN UNCHANGED <<executions, queue>>                         \* 403
       ELSE IF ~validate_variables(variables, PlaybookDef(pb).required_variables).ok
       THEN UNCHANGED <<executions, queue>>                         \* 400
       ELSE /\ executions' = Append(executions,
                   NewExecution(pb, user, <<"uuid", Len(executions) + 1>>,
                                variables, InitialStatus(pb)))
            /\ queue' = IF ~PlaybookDef(pb).requires_approval
                        THEN Append(queue, Len(executions) + 1)
                        ELSE queue
    /\ UNCHANGED <<clock, playbooks, reqs, workers, runs, schedVars, towerVars, tmpdirs, validation, launch_call>>

\* views.execute_playbook (the form): no access check, no validation, no dispatch
FormExecutePlaybook(user, pb, variables) ==
    /\ Len(executions) < MaxSubmissions
    /\ executions' = Append(executions,
           NewExecution(pb, user, <<"uuid", Len(executions) + 1>>,
                        variables, InitialStatus(pb)))
    /\ UNCHANGED <<clock, playbooks, queue, reqs, workers, runs, schedVars, towerVars, tmpdirs, validation, launch_call>>

-----------------------------------------------------------------------------
(* Approve and cancel requests *)

Reqs == 1..MaxRequests

IdleReq ==
    [pc |-> "idle", op |-> "", user |-> "", pk |-> 0, execution |-> None, resp |-> 0]

\* a slot serves a new request once its last one was answered
Free(q) == q.pc \in {"idle", "done"}

Answer(q, code) == [q EXCEPT !.pc = "done", !.resp = code]


\* get_object_or_404(PlaybookExecution, id=execution_id)
LoadRequest(r, op, user, pk) ==
    /\ Free(reqs[r])
    /\ \A x \in Reqs : Free(reqs[x]) => r <= x
    /\ pk \in ExecutionIds
    /\ reqs' = [reqs EXCEPT ![r] =
           [pc |-> "loaded", op |-> op, user |-> user, pk |-> pk,
            execution |-> executions[pk], resp |-> 0]]
    /\ UNCHANGED <<clock, executions, playbooks, queue, workers, runs, schedVars, towerVars, tmpdirs, validation, launch_call>>

ApproveLoad(r, user, pk) == LoadRequest(r, "approve", user, pk)
CancelLoad(r, user, pk)  == LoadRequest(r, "cancel", user, pk)

approve_allowed(status) == status = "pending"
\* a cancel check that only refuses what was cancelled already
cancel_allowed_unless_cancelled(status) == status # "cancelled"

cancel_allowed(status)  == status \in {"pending", "approved"}

\* api_views.api_approve_execution, after the row was loaded
ApproveFinish(r) ==
    LET q == reqs[r]
        e == q.execution
    IN  /\ q.pc = "loaded" /\ q.op = "approve"
        /\ IF ~is_staff(q.user)
           THEN /\ reqs' = [reqs EXCEPT ![r] = Answer(q, 403)]
                /\ UNCHANGED <<executions, queue>>
           ELSE IF ~approve_allowed(e.status)
           THEN /\ reqs' = [reqs EXCEPT ![r] = Answer(q, 400)]
                /\ UNCHANGED <<executions, queue>>
           ELSE /\ executions' = [executions EXCEPT ![q.pk] =
                       [e EXCEPT !.status = "approved",
                                 !.approved_by = Some(q.user),
                                 !.approved_at = Some(clock)]]
                /\ queue' = Append(queue, q.pk)
                /\ reqs' = [reqs EXCEPT ![r] = Answer(q, 200)]
        /\ UNCHANGED <<clock, playbooks, workers, runs, schedVars, towerVars, tmpdirs, validation, launch_call>>

\* api_views.api_cancel_execution, after the row was loaded
CancelFinish(r) ==
    LET q == reqs[r]
        e == q.execution
    IN  /\ q.pc = "loaded" /\ q.op = "cancel"
        /\ IF e.executor # q.user /\ ~is_staff(q.user)
           THEN /\ reqs' = [reqs EXCEPT ![r] = Answer(q, 403)]
                /\ UNCHANGED executions
           ELSE IF ~cancel_allowed(e.status)
           THEN /\ reqs' = [reqs EXCEPT ![r] = Answer(q, 400)]
                /\ UNCHANGED executions
           ELSE /\ executions' = [executions EXCEPT ![q.pk] =
                       [e EXCEPT !.status = "cancelled",
                                 !.completed_at = Some(clock)]]
                /\ reqs' = [reqs EXCEPT ![r] = Answer(q, 200)]
        /\ UNCHANGED <<clock, playbooks, queue, workers, runs, schedVars, towerVars, tmpdirs, validation, launch_call>>

-----------------------------------------------------------------------------
(* The Celery task execute_ansible_playbook and AnsibleService.execute_playbook *)

Workers == 1..MaxWorkers

IdleWorker == [pc |-> "idle", pk |-> 0, execution |-> None, playbook |-> None]

\* tasks.py:14  execution = PlaybookExecution.objects.get(id=execution_id)
TaskLoad(w) ==
    /\ workers[w].pc = "idle"
    /\ \A x \in Workers : workers[x].pc = "idle" => w <= x
    /\ queue # <<>>
    /\ workers' = [workers EXCEPT ![w] =
           [pc |-> "task_loaded", pk |-> Head(queue),
            execution |-> executions[Head(queue)], playbook |-> None]]
    /\ queue' = Tail(queue)
    /\ UNCHANGED <<clock, executions, playbooks, reqs, runs, schedVars, towerVars, tmpdirs, validation, launch_call>>

\* tasks.py:17-18  execution.task_id = ...; execution.save()  (task_id is no
\* column: the save rewrites the row from the copy read at line 14)
TaskSave(w) ==
    /\ workers[w].pc = "task_loaded"
    /\ executions' = [executions EXCEPT ![workers[w].pk] = workers[w].execution]
    /\ workers' = [workers EXCEPT ![w].pc = "task_saved"]
    /\ UNCHANGED <<clock, playbooks, queue, reqs, runs, schedVars, towerVars, tmpdirs, validation, launch_call>>

\* services.py:28-29  execution = ...get(id); playbook = execution.playbook
RunLoad(w) ==
    /\ workers[w].pc = "task_saved"
    /\ workers' = [workers EXCEPT ![w] =
           [pc |-> "run_loaded", pk |-> workers[w].pk,
            execution |-> executions[workers[w].pk],
            playbook |-> playbooks[executions[workers[w].pk].playbook]]]
    /\ UNCHANGED <<clock, executions, playbooks, queue, reqs, runs, schedVars, towerVars, tmpdirs, validation, launch_call>>

\* the guard execute_playbook applies before it marks the row running: none
may_start(execution) == TRUE

\* services.py:35-37  status = 'running'; started_at = now; save()
RunMark(w) ==
    LET e == [workers[w].execution EXCEPT !.status = "running",
                                          !.started_at = Some(clock)]
    IN  /\ workers[w].pc = "run_loaded"
        /\ may_start(workers[w].execution)
        /\ executions' = [executions EXCEPT ![workers[w].pk] = e]
        /\ workers' = [workers EXCEPT ![w] =
               [pc |-> "running", pk |-> workers[w].pk,
                execution |-> e, playbook |-> workers[w].playbook]]
        /\ UNCHANGED <<clock, playbooks, queue, reqs, runs, schedVars, towerVars, tmpdirs, validation, launch_call>>

ReturnCodes == {0, 2}

\* a mapping that takes every exit of the process for a success
exit_status_ignoring_code(rc) == "completed"

\* services.py:69-74  the status of a run whose process exited with rc
exit_status(rc) == IF rc = 0 THEN "completed" ELSE "failed"

\* services.py:40-87  the directory and its files are created, the process
\* exits with a return code, the directory is removed (services.py:85)
RunExit(w, rc) ==
    LET wk == workers[w]
        e  == [wk.execution EXCEPT
                  !.return_code = Some(rc),
                  !.completed_at = Some(clock),
                  !.status = exit_status(rc),
                  !.stderr = IF rc = 0 THEN "" ELSE "stderr"]
        p  == [execution_count |-> wk.playbook.execution_count + 1,
               success_count   |-> wk.playbook.success_count
                                     + (IF rc = 0 THEN 1 ELSE 0)]
    IN  /\ wk.pc = "running"
        /\ runs' = [runs EXCEPT ![wk.pk] = @ + 1]
        /\ playbooks' = [playbooks EXCEPT ![wk.execution.playbook] = p]
        /\ executions' = [executions EXCEPT ![wk.pk] = e]
        /\ workers' = [workers EXCEPT ![w] = IdleWorker]
        /\ UNCHANGED <<clock, queue, reqs, schedVars, towerVars, tmpdirs, validation, launch_call>>

\* services.py:40-61, 89-94  the directory and its files are created, the
\* process runs into the timeout (subprocess.TimeoutExpired): no cleanup
RunTimeout(w) ==
    LET wk == workers[w]
        e  == [wk.execution EXCEPT !.status = "timeout",
                                   !.completed_at = Some(clock)]
    IN  /\ wk.pc = "running"
        /\ runs' = [runs EXCEPT ![wk.pk] = @ + 1]
        /\ executions' = [executions EXCEPT ![wk.pk] = e]
        /\ workers' = [workers EXCEPT ![w] = IdleWorker]
        /\ tmpdirs' = tmpdirs \cup {wk.pk}
        /\ UNCHANGED <<clock, playbooks, queue, reqs, schedVars, towerVars, validation, launch_call>>

\* services.py:40-61, 96-102  the directory is created and then an exception
\* is raised (a file cannot be written, the binary is missing): no cleanup
RunException(w) ==
    LET wk == workers[w]
        e  == [wk.execution EXCEPT !.status = "failed",
                                   !.stderr = "exception",
                                   !.completed_at = Some(clock)]
    IN  /\ wk.pc = "running"
        /\ executions' = [executions EXCEPT ![wk.pk] = e]
        /\ workers' = [workers EXCEPT ![w] = IdleWorker]
        /\ tmpdirs' = tmpdirs \cup {wk.pk}
        /\ UNCHANGED <<clock, playbooks, queue, reqs, runs, schedVars, towerVars, validation, launch_call>>

-----------------------------------------------------------------------------
(* Dates and times: an aware datetime is its number of seconds since Epoch, *)
(* 2024-01-01 00:00:00 UTC, a Monday                                        *)

Date(y, m, d) == [year |-> y, month |-> m, day |-> d]
Epoch == Date(2024, 1, 1)
EpochYear == Epoch.year
SecondsPerDay == 24 * 60 * 60

IsLeap(y) == (y % 4 = 0 /\ y % 100 # 0) \/ y % 400 = 0
DaysInYear(y) == IF IsLeap(y) THEN 366 ELSE 365
DaysInMonth(y, m) ==
    IF m = 2 THEN (IF IsLeap(y) THEN 29 ELSE 28)
    ELSE IF m \in {4, 6, 9, 11} THEN 30 ELSE 31

RECURSIVE DaysBeforeYear(_)
DaysBeforeYear(y) ==
    IF y <= EpochYear THEN 0 ELSE DaysBeforeYear(y - 1) + DaysInYear(y - 1)

RECURSIVE DaysBeforeMonth(_, _)
DaysBeforeMonth(y, m) ==
    IF m <= 1 THEN 0 ELSE DaysBeforeMonth(y, m - 1) + DaysInMonth(y, m - 1)

\* date -> days since Epoch
Ordinal(year, month, day) ==
    DaysBeforeYear(year) + DaysBeforeMonth(year, month) + day - 1

RECURSIVE YearOfDay(_, _)
YearOfDay(d, y) ==
    IF d < DaysInYear(y) THEN [year |-> y, rest |-> d]
    ELSE YearOfDay(d - DaysInYear(y), y + 1)

RECURSIVE MonthOfDay(_, _, _)
MonthOfDay(d, y, m) ==
    IF d < DaysInMonth(y, m) THEN [month |-> m, day |-> d + 1]
    ELSE MonthOfDay(d - DaysInMonth(y, m), y, m + 1)

\* seconds since Epoch -> the fields of the datetime
DateTime(t) ==
    LET d  == t \div SecondsPerDay
        s  == t % SecondsPerDay
        yr == YearOfDay(d, EpochYear)
        md == MonthOfDay(yr.rest, yr.year, 1)
    IN  [year |-> yr.year, month |-> md.month, day |-> md.day,
         hour |-> s \div 3600, minute |-> (s % 3600) \div 60, second |-> s % 60]

\* the fields of a datetime -> seconds since Epoch
Seconds(dt) ==
    Ordinal(dt.year, dt.month, dt.day) * SecondsPerDay
      + dt.hour * 3600 + dt.minute * 60 + dt.second

\* datetime.weekday(): Monday is 0
weekday(t) == (t \div SecondsPerDay) % 7

\* a datetime.time as seconds of the day (its comparison order)
TimeOfDay(tm) == tm.hour * 3600 + tm.minute * 60 + tm.second
Time(h, m, sec) == [hour |-> h, minute |-> m, second |-> sec]

\* settings.TIME_ZONE = 'Europe/Istanbul': UTC+3, no daylight saving
UtcOffset == 3 * 3600

\* timezone.make_aware(datetime.combine(date, time))
make_aware(date, tm) ==
    Ordinal(date.year, date.month, date.day) * SecondsPerDay + TimeOfDay(tm) - UtcOffset

\* now.replace(hour=scheduled_time.hour, minute=scheduled_time.minute,
\*             second=0, microsecond=0)
ReplaceHourMinute(t, tm) ==
    Seconds([DateTime(t) EXCEPT !.hour = tm.hour, !.minute = tm.minute, !.second = 0])

-----------------------------------------------------------------------------
(* ScheduleManager.calculate_next_run, with now = timezone.now() *)

next_run_once(schedule, now) ==
    IF IsSet(schedule.scheduled_date)
       /\ make_aware(Val(schedule.scheduled_date), schedule.scheduled_time) > now
    THEN Some(make_aware(Val(schedule.scheduled_date), schedule.scheduled_time))
    ELSE None

next_run_daily(schedule, now) ==
    LET next_run == ReplaceHourMinute(now, schedule.scheduled_time)
    IN  IF next_run <= now THEN Some(next_run + SecondsPerDay) ELSE Some(next_run)

next_run_weekly(schedule, now) ==
    LET d0 == 0 - weekday(now)
        days_ahead == IF d0 <= 0 THEN d0 + 7 ELSE d0
    IN  Some(ReplaceHourMinute(now + days_ahead * SecondsPerDay, schedule.scheduled_time))

next_run_monthly(schedule, now) ==
    LET dt == DateTime(now)
    IN  IF dt.day = 1 /\ now % SecondsPerDay < TimeOfDay(schedule.scheduled_time)
        THEN Some(ReplaceHourMinute(now, schedule.scheduled_time))
        ELSE LET next_month ==
                     IF dt.month = 12
                     THEN Seconds([dt EXCEPT !.year = dt.year + 1, !.month = 1, !.day = 1])
                     ELSE Seconds([dt EXCEPT !.month = dt.month + 1, !.day = 1])
             IN  Some(ReplaceHourMinute(next_month, schedule.scheduled_time))

next_run_cron(schedule, now) == Some(now + 3600)

calculate_next_run(schedule, now) ==
    CASE schedule.schedule_type = "once"    -> next_run_once(schedule, now)
      [] schedule.schedule_type = "daily"   -> next_run_daily(schedule, now)
      [] schedule.schedule_type = "weekly"  -> next_run_weekly(schedule, now)
      [] schedule.schedule_type = "monthly" -> next_run_monthly(schedule, now)
      [] schedule.schedule_type = "cron"    -> next_run_cron(schedule, now)
      [] OTHER -> None

NoCall == [pc |-> "idle", result |-> None, calls |-> 0]

\* a caller that stores the result in the row it was given
CalcApplyAndStore(sid) ==
    /\ calc.calls < MaxCalls
    /\ calc' = [pc |-> "done", result |-> calculate_next_run(schedules[sid], clock),
                calls |-> calc.calls + 1]
    /\ schedules' = [schedules EXCEPT
           ![sid].next_run = calculate_next_run(schedules[sid], clock)]
    /\ UNCHANGED <<clock, executions, playbooks, queue, reqs, workers, runs,
                   ticks, fired, towerVars, tmpdirs, validation, launch_call>>

\* a caller evaluates ScheduleManager.calculate_next_run(schedule) at clock:
\* the schedule is read, the result is returned, nothing is saved
CalcApply(sid) ==
    /\ calc.calls < MaxCalls
    /\ calc' = [pc |-> "done", result |-> calculate_next_run(schedules[sid], clock),
                calls |-> calc.calls + 1]
    /\ UNCHANGED <<clock, executions, playbooks, queue, reqs, workers, runs,
                   schedules, ticks, fired, towerVars, tmpdirs, validation, launch_call>>

-----------------------------------------------------------------------------
(* AutomationSchedule rows and the trigger loop process_scheduled_playbooks *)

ScheduleIds == {1}
Schedulers == 1..MaxSchedulers
SystemUser == "admin"       \* executor_id=1

NewSchedule(pb, type, tm, date, cron, next_run) ==
    [playbook        |-> pb,
     is_enabled      |-> TRUE,
     schedule_type   |-> type,
     scheduled_time  |-> tm,
     scheduled_date  |-> date,
     cron_expression |-> cron,
     last_run        |-> None,
     next_run        |-> next_run,
     run_count       |-> 0]

IdleTick == [pc |-> "idle", now |-> 0, due |-> <<>>]

is_due(schedule, now) ==
    schedule.is_enabled /\ IsSet(schedule.next_run) /\ Val(schedule.next_run) <= now

\* the rows of a filter(...) in primary-key order, as copies
RECURSIVE DueRows(_, _)
DueRows(ids, now) ==
    IF ids = {} THEN <<>>
    ELSE LET i == CHOOSE x \in ids : \A y \in ids : x <= y
         IN  (IF is_due(schedules[i], now)
              THEN <<[id |-> i, row |-> schedules[i]]>> ELSE <<>>)
             \o DueRows(ids \ {i}, now)

\* tasks.py:45-55  now = timezone.now(); the due schedules are read
TickScan(i) ==
    /\ ticks[i].pc = "idle"
    /\ \A x \in Schedulers : ticks[x].pc = "idle" => i <= x
    /\ DueRows(ScheduleIds, clock) # <<>>
    /\ ticks' = [ticks EXCEPT ![i] =
           [pc |-> "firing", now |-> clock, due |-> DueRows(ScheduleIds, clock)]]
    /\ UNCHANGED <<clock, executions, playbooks, queue, reqs, workers,
                   runs, schedules, fired, calc, towerVars, tmpdirs, validation, launch_call>>

\* f"scheduled_{schedule.id}_{now.strftime('%Y%m%d_%H%M%S')}"
scheduled_execution_id(sid, now) == <<"scheduled", sid, now>>

\* execution_id is unique=True
id_taken(xid) == \E k \in ExecutionIds : executions[k].execution_id = xid

TickRest(i) ==
    IF Len(ticks[i].due) = 1 THEN IdleTick
    ELSE [ticks[i] EXCEPT !.due = Tail(@)]

\* tasks.py:58-64  the execution row of a due schedule
ScheduledExecution(d, now) ==
    NewExecution(d.row.playbook, SystemUser, scheduled_execution_id(d.id, now),
                 DictVars({}), "approved")

\* tasks.py:70-75  the schedule row after the run was dispatched
FiredSchedule(row, now) ==
    LET s1 == [row EXCEPT !.last_run = Some(now), !.run_count = @ + 1]
    IN  [s1 EXCEPT !.next_run = calculate_next_run(s1, clock)]

\* tasks.py:56-91  one due schedule: create, dispatch, update the schedule
TickFire(i) ==
    LET t == ticks[i]
        d == Head(t.due)
    IN  /\ t.pc = "firing"
        /\ Len(executions) < MaxScheduled
        /\ ~id_taken(scheduled_execution_id(d.id, t.now))
        /\ executions' = Append(executions, ScheduledExecution(d, t.now))
        /\ fired' = Append(fired, [schedule |-> d.id, next_run |-> d.row.next_run,
                                    dispatched |-> TRUE])
        /\ queue' = Append(queue, Len(executions) + 1)
        /\ schedules' = [schedules EXCEPT ![d.id] = FiredSchedule(d.row, t.now)]
        /\ ticks' = [ticks EXCEPT ![i] = TickRest(i)]
        /\ UNCHANGED <<clock, playbooks, reqs, workers, runs, calc, towerVars, tmpdirs, validation, launch_call>>

\* tasks.py:67, 86-91  execute_ansible_playbook.delay raises (broker down):
\* the row stays, the schedule is not updated
TickFireDispatchFails(i) ==
    LET t == ticks[i]
        d == Head(t.due)
    IN  /\ t.pc = "firing"
        /\ Len(executions) < MaxScheduled
        /\ ~id_taken(scheduled_execution_id(d.id, t.now))
        /\ executions' = Append(executions, ScheduledExecution(d, t.now))
        /\ fired' = Append(fired, [schedule |-> d.id, next_run |-> d.row.next_run,
                                    dispatched |-> FALSE])
        /\ ticks' = [ticks EXCEPT ![i] = TickRest(i)]
        /\ UNCHANGED <<clock, playbooks, queue, reqs, workers, runs,
                       schedules, calc, towerVars, tmpdirs, validation, launch_call>>

\* tasks.py:58, 86-91  create raises IntegrityError: the execution_id exists
TickFireDuplicate(i) ==
    LET t == ticks[i]
        d == Head(t.due)
    IN  /\ t.pc = "firing"
        /\ id_taken(scheduled_execution_id(d.id, t.now))
        /\ ticks' = [ticks EXCEPT ![i] = TickRest(i)]
        /\ UNCHANGED <<clock, executions, playbooks, queue, reqs,
                       workers, runs, schedules, fired, calc, towerVars, tmpdirs, validation, launch_call>>

-----------------------------------------------------------------------------
(* The Tower/AWX adapter: AnsibleTowerService and the views that call it *)

JobTemplateIds == {"deploy", "patch"}
is_superuser(u) == u = "admin"

\* AnsibleJobTemplate: is_enabled, allowed_users, requires_approval
JobTemplateDef(t) ==
    [is_enabled |-> TRUE, allowed_users |-> {}, requires_approval |-> t = "patch"]

can_user_execute(t, user) ==
    IF ~JobTemplateDef(t).is_enabled THEN FALSE
    ELSE IF JobTemplateDef(t).allowed_users # {}
         THEN user \in JobTemplateDef(t).allowed_users
         ELSE TRUE

NewJobExecution(t, user, xid) ==
    [job_template      |-> t,
     executor          |-> user,
     execution_id      |-> xid,
     tower_job_id      |-> None,
     status            |-> "pending",
     finished_at       |-> None,
     elapsed           |-> None,
     result_stdout     |-> "",
     result_stderr     |-> "",
     requires_approval |-> FALSE,
     approved_by       |-> None]

JobIds == 1..Len(jobs)

\* a test that takes everything but a canceled job for a running one
is_not_canceled(job_execution) == job_execution.status # "canceled"

\* AnsibleJobExecution.is_running
is_running(job_execution) == job_execution.status \in {"pending", "waiting", "running"}

\* a job on the Tower server, as GET /api/v2/jobs/<id>/ reports it; cancel_flag:
\* a cancel was accepted and the server has not acted on it yet
NewTowerJob ==
    [status |-> "pending", finished |-> None, elapsed |-> 0, stdout |-> "",
     cancel_flag |-> FALSE]

\* what a finished job printed: nothing, or some text
TowerOutputs == {"", "ok"}

\* the requests sent to Tower for one job execution
NoRequests ==
    [posts |-> 0, launch |-> "", polls |-> 0, failed |-> 0, fetched |-> 0, cancels |-> 0]

NoJobs ==
    /\ jobs = <<>>
    /\ tower = <<>>
    /\ jreqs = [r \in 1..MaxJobRequests |->
                   [pc |-> "idle", op |-> "", user |-> "", pk |-> 0,
                    job_execution |-> None, resp |-> 0, message |-> ""]]
    /\ http = <<>>
    /\ launches = {}

\* The arguments survey_answers and extra_vars of launch_job_template: None,
\* a dict (a function from the variable names to their values), or another
\* decoded JSON value that is true in a condition (a non-empty list, a number)
NoneArg      == [kind |-> "none",  items |-> <<>>]
DictArg(d)   == [kind |-> "dict",  items |-> d]
OtherArg     == [kind |-> "other", items |-> <<>>]

\* survey_answers or {}, extra_vars or {}
or_empty(arg) ==
    IF arg.kind = "none" \/ (arg.kind = "dict" /\ DOMAIN arg.items = {})
    THEN DictArg(<<>>) ELSE arg

\* a merge in which the survey answer wins where both have the key
launch_extra_vars_survey_first(survey_answers, extra_vars) ==
    LET s == or_empty(survey_answers).items
        e == or_empty(extra_vars).items
    IN  [k \in DOMAIN s \cup DOMAIN e |-> IF k \in DOMAIN s THEN s[k] ELSE e[k]]

\* services.py:385  {**survey_answers or {}, **extra_vars or {}}: the keys of
\* both, a key of both with the value of the dict unpacked last
launch_extra_vars(survey_answers, extra_vars) ==
    LET s == or_empty(survey_answers).items
        e == or_empty(extra_vars).items
    IN  [k \in DOMAIN s \cup DOMAIN e |-> IF k \in DOMAIN e THEN e[k] ELSE s[k]]

NoLaunchCall ==
    [pc |-> "idle", survey_answers |-> NoneArg, extra_vars |-> NoneArg,
     launch_data |-> None]

\* launch_job_template prepares launch_data (services.py:384-386) and posts it
\* (services.py:402); unpacking a value that is no mapping raises TypeError
\* and no request is sent (services.py:430-437)
LaunchData ==
    /\ launch_call.pc = "idle"
    /\ IF or_empty(launch_call.survey_answers).kind = "dict"
          /\ or_empty(launch_call.extra_vars).kind = "dict"
       THEN launch_call' = [launch_call EXCEPT
                !.pc = "posted",
                !.launch_data = Some([extra_vars |->
                    launch_extra_vars(launch_call.survey_answers, launch_call.extra_vars)])]
       ELSE launch_call' = [launch_call EXCEPT !.pc = "raised"]
    /\ UNCHANGED <<clock, executions, playbooks, queue, reqs, workers, runs,
                   schedVars, towerVars, tmpdirs, validation>>

\* views.launch_job_template -> launch_job_template: the row is created
\* (services.py:369-381) and the launch request is prepared
LaunchJobTemplate(user, t) ==
    LET job_execution == NewJobExecution(t, user, <<"uuid", Len(jobs) + 1>>)
    IN  /\ Len(jobs) < MaxJobs
        /\ can_user_execute(t, user)
        /\ jobs' = Append(jobs, job_execution)
        /\ http' = Append(http, NoRequests)
        /\ launches' = launches \cup
               {[pk |-> Len(jobs) + 1, job_execution |-> job_execution]}
        /\ UNCHANGED <<clock, executions, playbooks, queue, reqs, workers, runs,
                       schedVars, tower, jreqs, tmpdirs, validation, launch_call>>

\* an answered POST after which the row is waiting and the job id is not kept
LaunchAcceptedWithoutId(l) ==
    /\ l \in launches
    /\ tower' = Append(tower, NewTowerJob)
    /\ jobs' = [jobs EXCEPT ![l.pk] = [l.job_execution EXCEPT !.status = "waiting"]]
    /\ http' = [http EXCEPT ![l.pk].posts = @ + 1, ![l.pk].launch = "returned"]
    /\ launches' = launches \ {l}
    /\ UNCHANGED <<clock, executions, playbooks, queue, reqs, workers, runs,
                   schedVars, jreqs, tmpdirs, validation, launch_call>>

\* services.py:402-421  the POST is answered: the job id is stored, the call
\* returns the row
LaunchAccepted(l) ==
    /\ l \in launches
    /\ tower' = Append(tower, NewTowerJob)
    /\ jobs' = [jobs EXCEPT ![l.pk] =
           [l.job_execution EXCEPT !.tower_job_id = Some(Len(tower) + 1),
                                   !.status = "waiting"]]
    /\ http' = [http EXCEPT ![l.pk].posts = @ + 1, ![l.pk].launch = "returned"]
    /\ launches' = launches \ {l}
    /\ UNCHANGED <<clock, executions, playbooks, queue, reqs, workers, runs,
                   schedVars, jreqs, tmpdirs, validation, launch_call>>

\* a launch failure that is logged and leaves the row as it was created
LaunchFailsSilently(l) ==
    /\ l \in launches
    /\ http' = [http EXCEPT ![l.pk].posts = @ + 1, ![l.pk].launch = "raised"]
    /\ launches' = launches \ {l}
    /\ UNCHANGED <<clock, executions, playbooks, queue, reqs, workers, runs,
                   schedVars, jobs, tower, jreqs, tmpdirs, validation, launch_call>>

\* services.py:423-437  the POST raises: the row is saved with status 'error'
\* and the message, the exception is raised again
LaunchJobTemplateFails(l) ==
    /\ l \in launches
    /\ jobs' = [jobs EXCEPT ![l.pk] =
           [l.job_execution EXCEPT !.status = "error",
                                   !.result_stderr = "request failed"]]
    /\ http' = [http EXCEPT ![l.pk].posts = @ + 1, ![l.pk].launch = "raised"]
    /\ launches' = launches \ {l}
    /\ UNCHANGED <<clock, executions, playbooks, queue, reqs, workers, runs,
                   schedVars, tower, jreqs, tmpdirs, validation, launch_call>>

\* the Tower server starts a job
TowerStart(j) ==
    /\ j \in 1..Len(tower)
    /\ tower[j].status = "pending"
    /\ tower' = [tower EXCEPT ![j].status = "running"]
    /\ UNCHANGED <<clock, executions, playbooks, queue, reqs, workers, runs,
                   schedVars, jobs, jreqs, http, launches, tmpdirs, validation, launch_call>>

\* the Tower server ends a job: its result, its output, its duration
TowerFinish(j, status, out) ==
    /\ j \in 1..Len(tower)
    /\ tower[j].status = "running"
    /\ tower' = [tower EXCEPT ![j] =
           [status |-> status, finished |-> Some(clock), elapsed |-> 1, stdout |-> out,
            cancel_flag |-> tower[j].cancel_flag]]
    /\ UNCHANGED <<clock, executions, playbooks, queue, reqs, workers, runs,
                   schedVars, jobs, jreqs, http, launches, tmpdirs, validation, launch_call>>

\* the Tower server acts on an accepted cancel
TowerCancel(j) ==
    /\ j \in 1..Len(tower)
    /\ tower[j].cancel_flag
    /\ tower[j].status \in {"pending", "running"}
    /\ tower' = [tower EXCEPT ![j] =
           [status |-> "canceled", finished |-> Some(clock), elapsed |-> 1,
            stdout |-> "", cancel_flag |-> TRUE]]
    /\ UNCHANGED <<clock, executions, playbooks, queue, reqs, workers, runs,
                   schedVars, jobs, jreqs, http, launches, tmpdirs, validation, launch_call>>

JobReqs == 1..MaxJobRequests

JobAnswer(q, code) == [q EXCEPT !.pc = "done", !.resp = code]

\* get_object_or_404(AnsibleJobExecution, pk=pk)
LoadJobRequest(r, op, user, pk) ==
    /\ jreqs[r].pc \in {"idle", "done"}
    /\ \A x \in JobReqs : jreqs[x].pc \in {"idle", "done"} => r <= x
    /\ pk \in JobIds
    /\ jreqs' = [jreqs EXCEPT ![r] =
           [pc |-> "loaded", op |-> op, user |-> user, pk |-> pk,
            job_execution |-> jobs[pk], resp |-> 0, message |-> ""]]

RefreshLoad(r, user, pk) ==
    /\ pk \in JobIds
    /\ http[pk].polls < MaxPolls
    /\ LoadJobRequest(r, "refresh", user, pk)
    /\ http' = [http EXCEPT ![pk].polls = @ + 1]
    /\ UNCHANGED <<clock, executions, playbooks, queue, reqs, workers, runs,
                   schedVars, jobs, tower, launches, tmpdirs, validation, launch_call>>

CancelJobLoad(r, user, pk) ==
    /\ pk \in JobIds
    /\ http[pk].cancels < MaxCancels
    /\ LoadJobRequest(r, "cancel", user, pk)
    /\ UNCHANGED <<clock, executions, playbooks, queue, reqs, workers, runs,
                   schedVars, jobs, tower, http, launches, tmpdirs, validation, launch_call>>

job_denied(q) == ~is_superuser(q.user) /\ q.job_execution.executor # q.user

StatusTable ==
    {"pending", "waiting", "running", "successful", "failed", "error", "canceled"}

\* status_mapping.get(job_data.get('status'), 'error')
status_mapping(status) == IF status \in StatusTable THEN status ELSE "error"

\* services.py:504  the condition under which the output is fetched
needs_output(new_status, job_execution) ==
    new_status \in {"successful", "failed", "error"} /\ job_execution.result_stdout = ""

\* views.refresh_job_status -> update_job_status: the status is read from
\* Tower and the row is saved (services.py:459-494)
RefreshUpdate(r) ==
    LET q == jreqs[r]
        job_data == tower[Val(q.job_execution.tower_job_id)]
        new_status == status_mapping(job_data.status)
        e == [q.job_execution EXCEPT
                 !.status = new_status,
                 !.finished_at = IF IsSet(job_data.finished) THEN job_data.finished ELSE @,
                 !.elapsed = IF job_data.elapsed # 0 THEN Some(job_data.elapsed) ELSE @]
    IN  /\ q.pc = "loaded" /\ q.op = "refresh"
        /\ IF job_denied(q)
           THEN /\ jreqs' = [jreqs EXCEPT ![r] = JobAnswer(q, 403)]
                /\ UNCHANGED jobs
           ELSE IF ~IsSet(q.job_execution.tower_job_id)
           THEN /\ jreqs' = [jreqs EXCEPT ![r] = JobAnswer(q, 500)]
                /\ UNCHANGED jobs
           ELSE /\ jobs' = [jobs EXCEPT ![q.pk] = e]
                /\ jreqs' = [jreqs EXCEPT ![r] =
                       IF needs_output(new_status, e)
                       THEN [q EXCEPT !.pc = "updated", !.job_execution = e]
                       ELSE JobAnswer([q EXCEPT !.job_execution = e], 200)]
        /\ UNCHANGED <<clock, executions, playbooks, queue, reqs, workers, runs,
                       schedVars, tower, http, launches, tmpdirs, validation, launch_call>>

\* a failed status request that marks the row with an error
RefreshUnreachableMarksError(r) ==
    LET q == jreqs[r]
    IN  /\ q.pc = "loaded" /\ q.op = "refresh"
        /\ ~job_denied(q)
        /\ IsSet(q.job_execution.tower_job_id)
        /\ jobs' = [jobs EXCEPT ![q.pk] = [q.job_execution EXCEPT !.status = "error"]]
        /\ jreqs' = [jreqs EXCEPT ![r] = JobAnswer(q, 500)]
        /\ http' = [http EXCEPT ![q.pk].failed = @ + 1]
        /\ UNCHANGED <<clock, executions, playbooks, queue, reqs, workers, runs,
                       schedVars, tower, launches, tmpdirs, validation, launch_call>>

\* services.py:453-455  the status request raises: nothing is updated
RefreshUnreachable(r) ==
    LET q == jreqs[r]
    IN  /\ q.pc = "loaded" /\ q.op = "refresh"
        /\ ~job_denied(q)
        /\ IsSet(q.job_execution.tower_job_id)
        /\ jreqs' = [jreqs EXCEPT ![r] = JobAnswer(q, 500)]
        /\ http' = [http EXCEPT ![q.pk].failed = @ + 1]
        /\ UNCHANGED <<clock, executions, playbooks, queue, reqs, workers, runs,
                       schedVars, jobs, tower, launches, tmpdirs, validation, launch_call>>

\* _fetch_job_output: the stdout request is answered with a status code, the
\* failed events become result_stderr, the row is saved
RefreshFetch(r, code) ==
    LET q == jreqs[r]
        job_data == tower[Val(q.job_execution.tower_job_id)]
        e == [q.job_execution EXCEPT
                 !.result_stdout = IF code = 200 THEN job_data.stdout ELSE @,
                 !.result_stderr = IF job_data.status = "failed" THEN "failed events" ELSE @]
    IN  /\ q.pc = "updated"
        /\ jobs' = [jobs EXCEPT ![q.pk] = e]
        /\ http' = [http EXCEPT ![q.pk].fetched = IF code = 200 THEN @ + 1 ELSE @]
        /\ jreqs' = [jreqs EXCEPT ![r] = JobAnswer([q EXCEPT !.job_execution = e], 200)]
        /\ UNCHANGED <<clock, executions, playbooks, queue, reqs, workers, runs,
                       schedVars, tower, launches, tmpdirs, validation, launch_call>>

\* services.py:544-545  a request of _fetch_job_output raises: nothing is saved
RefreshFetchFails(r) ==
    LET q == jreqs[r]
    IN  /\ q.pc = "updated"
        /\ jreqs' = [jreqs EXCEPT ![r] = JobAnswer(q, 200)]
        /\ UNCHANGED <<clock, executions, playbooks, queue, reqs, workers, runs,
                       schedVars, jobs, tower, http, launches, tmpdirs, validation, launch_call>>

\* the redirect of cancel_job_execution with its message (messages.success,
\* messages.warning, messages.error)
CancelAnswer(q, message) == [JobAnswer(q, 302) EXCEPT !.message = message]

\* a cancel that does not look at tower_job_id before it marks the row
CancelJobWithoutId(r) ==
    LET q == jreqs[r]
    IN  /\ q.pc = "loaded" /\ q.op = "cancel"
        /\ IF job_denied(q) \/ ~is_running(q.job_execution)
           THEN UNCHANGED jobs
           ELSE jobs' = [jobs EXCEPT ![q.pk] =
                    [q.job_execution EXCEPT !.status = "canceled",
                                            !.finished_at = Some(clock)]]
        /\ jreqs' = [jreqs EXCEPT ![r] = CancelAnswer(q, "success")]
        /\ UNCHANGED <<clock, executions, playbooks, queue, reqs, workers, runs,
                       schedVars, tower, http, launches, tmpdirs, validation, launch_call>>

\* views.cancel_job_execution -> cancel_job: the checks, and Tower accepts
\* the cancel (services.py:549-566)
CancelJobFinish(r) ==
    LET q == jreqs[r]
        id == Val(q.job_execution.tower_job_id)
    IN  /\ q.pc = "loaded" /\ q.op = "cancel"
        /\ IF job_denied(q)
           THEN /\ jreqs' = [jreqs EXCEPT ![r] = CancelAnswer(q, "error")]
                /\ UNCHANGED <<jobs, tower, http>>
           ELSE IF ~is_running(q.job_execution)
           THEN /\ jreqs' = [jreqs EXCEPT ![r] = CancelAnswer(q, "warning")]
                /\ UNCHANGED <<jobs, tower, http>>
           ELSE IF ~IsSet(q.job_execution.tower_job_id)
           THEN /\ jreqs' = [jreqs EXCEPT ![r] = CancelAnswer(q, "error")]
                /\ UNCHANGED <<jobs, tower, http>>
           ELSE /\ is_running(tower[id])
                /\ tower' = [tower EXCEPT ![id].cancel_flag = TRUE]
                /\ jobs' = [jobs EXCEPT ![q.pk] =
                       [q.job_execution EXCEPT !.status = "canceled",
                                               !.finished_at = Some(clock)]]
                /\ http' = [http EXCEPT ![q.pk].cancels = @ + 1]
                /\ jreqs' = [jreqs EXCEPT ![r] = CancelAnswer(q, "success")]
        /\ UNCHANGED <<clock, executions, playbooks, queue, reqs, workers, runs,
                       schedVars, launches, tmpdirs, validation, launch_call>>

\* services.py:568-570  the cancel request raises: nothing is updated
CancelJobRefused(r) ==
    LET q == jreqs[r]
    IN  /\ q.pc = "loaded" /\ q.op = "cancel"
        /\ ~job_denied(q)
        /\ is_running(q.job_execution)
        /\ IsSet(q.job_execution.tower_job_id)
        /\ jreqs' = [jreqs EXCEPT ![r] = CancelAnswer(q, "error")]
        /\ http' = [http EXCEPT ![q.pk].cancels = @ + 1]
        /\ UNCHANGED <<clock, executions, playbooks, queue, reqs, workers, runs,
                       schedVars, jobs, tower, launches, tmpdirs, validation, launch_call>>

-----------------------------------------------------------------------------
(* Time passes *)

Advance ==
    /\ clock < MaxClock
    /\ clock' = clock + 1
    /\ UNCHANGED <<executions, playbooks, queue, reqs, workers, runs, schedVars, towerVars, tmpdirs, validation, launch_call>>

-----------------------------------------------------------------------------
(* The execution lifecycle: submissions, approve, cancel and the workers *)

Init ==
    /\ clock = 0
    /\ executions = <<>>
    /\ playbooks = [pb \in PlaybookIds |-> [execution_count |-> 0, success_count |-> 0]]
    /\ queue = <<>>
    /\ reqs = [r \in Reqs |-> IdleReq]
    /\ workers = [w \in Workers |-> IdleWorker]
    /\ runs = [i \in 1..(MaxSubmissions + MaxScheduled) |-> 0]
    /\ schedules = [i \in ScheduleIds |->
           NewSchedule("restart", "daily", Time(0, 0, 0), None, "", None)]
    /\ ticks = [i \in Schedulers |-> IdleTick]
    /\ fired = <<>>
    /\ calc = NoCall
    /\ NoJobs
    /\ tmpdirs = {}
    /\ launch_call = NoLaunchCall
    /\ validation = NoValidation

Next ==
    \/ \E u \in Users, pb \in PlaybookIds, v \in SubmitVars : ApiExecutePlaybook(u, pb, v)
    \/ \E u \in Users, pb \in PlaybookIds, v \in FormVars : FormExecutePlaybook(u, pb, v)
    \/ \E r \in Reqs, u \in Users, pk \in ExecutionIds : ApproveLoad(r, u, pk)
    \/ \E r \in Reqs, u \in Users, pk \in ExecutionIds : CancelLoad(r, u, pk)
    \/ \E r \in Reqs : ApproveFinish(r)
    \/ \E r \in Reqs : CancelFinish(r)
    \/ \E w \in Workers : TaskLoad(w)
    \/ \E w \in Workers : TaskSave(w)
    \/ \E w \in Workers : RunLoad(w)
    \/ \E w \in Workers : RunMark(w)
    \/ \E w \in Workers, rc \in ReturnCodes : RunExit(w, rc)
    \/ \E w \in Workers : RunTimeout(w)
    \/ \E w \in Workers : RunException(w)

Spec == Init /\ [][Next]_vars

-----------------------------------------------------------------------------
(* The lifecycle with the clock: an API submission, cancel requests, the *)
(* workers                                                                *)

ClockNext ==
    \/ \E u \in Users, pb \in PlaybookIds, v \in SubmitVars : ApiExecutePlaybook(u, pb, v)
    \/ \E r \in Reqs, u \in Users, pk \in ExecutionIds : CancelLoad(r, u, pk)
    \/ \E r \in Reqs : CancelFinish(r)
    \/ \E w \in Workers : TaskLoad(w)
    \/ \E w \in Workers : TaskSave(w)
    \/ \E w \in Workers : RunLoad(w)
    \/ \E w \in Workers : RunMark(w)
    \/ \E w \in Workers, rc \in ReturnCodes : RunExit(w, rc)
    \/ \E w \in Workers : RunTimeout(w)
    \/ \E w \in Workers : RunException(w)
    \/ Advance

ClockSpec == Init /\ [][ClockNext]_vars

-----------------------------------------------------------------------------
(* Dispatch: submissions and approve requests, with workers that take every *)
(* queued task and runs that end                                            *)

\* a run ends: the process exits, runs into the timeout, or an exception is
\* raised (subprocess.run has timeout=self.timeout)
RunEnds(w) ==
    \/ \E rc \in ReturnCodes : RunExit(w, rc)
    \/ RunTimeout(w)
    \/ RunException(w)

DispatchNext ==
    \/ \E u \in Users, pb \in PlaybookIds, v \in SubmitVars : ApiExecutePlaybook(u, pb, v)
    \/ \E u \in Users, pb \in PlaybookIds, v \in FormVars : FormExecutePlaybook(u, pb, v)
    \/ \E r \in Reqs, u \in Users, pk \in ExecutionIds : ApproveLoad(r, u, pk)
    \/ \E r \in Reqs : ApproveFinish(r)
    \/ \E w \in Workers : TaskLoad(w)
    \/ \E w \in Workers : TaskSave(w)
    \/ \E w \in Workers : RunLoad(w)
    \/ \E w \in Workers : RunMark(w)
    \/ \E w \in Workers : RunEnds(w)

\* every request that was read is answered, every queued task is taken by a
\* worker, and a worker goes on until the run has ended
DispatchFairness ==
    /\ \A r \in Reqs : WF_vars(ApproveFinish(r))
    /\ \A w \in Workers : WF_vars(TaskLoad(w))
    /\ \A w \in Workers : WF_vars(TaskSave(w))
    /\ \A w \in Workers : WF_vars(RunLoad(w))
    /\ \A w \in Workers : WF_vars(RunMark(w))
    /\ \A w \in Workers : WF_vars(RunEnds(w))

DispatchSpec == Init /\ [][DispatchNext]_vars /\ DispatchFairness

-----------------------------------------------------------------------------
(* Concurrent runs of one playbook: two executions of it were submitted     *)
(* through the API and are queued, the workers run them while time passes   *)

QueuedExecution(k, user) ==
    NewExecution("report", user, <<"uuid", k>>, DictVars({}), InitialStatus("report"))

RunsInit ==
    /\ clock = 0
    /\ executions = <<QueuedExecution(1, "alice"), QueuedExecution(2, "admin")>>
    /\ playbooks = [pb \in PlaybookIds |-> [execution_count |-> 0, success_count |-> 0]]
    /\ queue = <<1, 2>>
    /\ reqs = [r \in Reqs |-> IdleReq]
    /\ workers = [w \in Workers |-> IdleWorker]
    /\ runs = [i \in 1..(MaxSubmissions + MaxScheduled) |-> 0]
    /\ schedules = [i \in ScheduleIds |->
           NewSchedule("restart", "daily", Time(0, 0, 0), None, "", None)]
    /\ ticks = [i \in Schedulers |-> IdleTick]
    /\ fired = <<>>
    /\ calc = NoCall
    /\ NoJobs
    /\ tmpdirs = {}
    /\ launch_call = NoLaunchCall
    /\ validation = NoValidation

RunsNext ==
    \/ \E w \in Workers : TaskLoad(w)
    \/ \E w \in Workers : TaskSave(w)
    \/ \E w \in Workers : RunLoad(w)
    \/ \E w \in Workers : RunMark(w)
    \/ \E w \in Workers, rc \in ReturnCodes : RunExit(w, rc)
    \/ \E w \in Workers : RunTimeout(w)
    \/ \E w \in Workers : RunException(w)
    \/ Advance

RunsSpec == RunsInit /\ [][RunsNext]_vars

-----------------------------------------------------------------------------
(* The trigger loop: concurrent scheduler runs, the workers, the clock *)

ScheduleTypes == {"daily", "monthly"}
ScheduledTimes == {Time(0, 0, 0), Time(0, 0, 2)}

SchedInit ==
    /\ clock = 0
    /\ executions = <<>>
    /\ playbooks = [pb \in PlaybookIds |-> [execution_count |-> 0, success_count |-> 0]]
    /\ queue = <<>>
    /\ reqs = [r \in Reqs |-> IdleReq]
    /\ workers = [w \in Workers |-> IdleWorker]
    /\ runs = [i \in 1..(MaxSubmissions + MaxScheduled) |-> 0]
    /\ \E type \in ScheduleTypes, tm \in ScheduledTimes :
           schedules = [i \in ScheduleIds |->
               NewSchedule("restart", type, tm, None, "", Some(0))]
    /\ ticks = [i \in Schedulers |-> IdleTick]
    /\ fired = <<>>
    /\ calc = NoCall
    /\ NoJobs
    /\ tmpdirs = {}
    /\ launch_call = NoLaunchCall
    /\ validation = NoValidation

SchedNext ==
    \/ \E i \in Schedulers : TickScan(i)
    \/ \E i \in Schedulers : TickFire(i)
    \/ \E i \in Schedulers : TickFireDispatchFails(i)
    \/ \E i \in Schedulers : TickFireDuplicate(i)
    \/ \E w \in Workers : TaskLoad(w)
    \/ \E w \in Workers : TaskSave(w)
    \/ \E w \in Workers : RunLoad(w)
    \/ \E w \in Workers : RunMark(w)
    \/ \E w \in Workers, rc \in ReturnCodes : RunExit(w, rc)
    \/ \E w \in Workers : RunTimeout(w)
    \/ \E w \in Workers : RunException(w)
    \/ Advance

SchedSpec == SchedInit /\ [][SchedNext]_vars

-----------------------------------------------------------------------------
(* The trigger loop on a schedule of type once whose next_run is the        *)
(* scheduled instant                                                        *)

\* 2024-01-01 03:00:00 and 03:00:01 in Europe/Istanbul: clock 0 and clock 1
OnceTimes == {Time(3, 0, 0), Time(3, 0, 1)}

OnceInit ==
    /\ clock = 0
    /\ executions = <<>>
    /\ playbooks = [pb \in PlaybookIds |-> [execution_count |-> 0, success_count |-> 0]]
    /\ queue = <<>>
    /\ reqs = [r \in Reqs |-> IdleReq]
    /\ workers = [w \in Workers |-> IdleWorker]
    /\ runs = [i \in 1..(MaxSubmissions + MaxScheduled) |-> 0]
    /\ \E tm \in OnceTimes :
           schedules = [i \in ScheduleIds |->
               NewSchedule("report", "once", tm, Some(Epoch), "",
                           Some(make_aware(Epoch, tm)))]
    /\ ticks = [i \in Schedulers |-> IdleTick]
    /\ fired = <<>>
    /\ calc = NoCall
    /\ NoJobs
    /\ tmpdirs = {}
    /\ launch_call = NoLaunchCall
    /\ validation = NoValidation

OnceSpec == OnceInit /\ [][SchedNext]_vars

-----------------------------------------------------------------------------
(* calculate_next_run as a function of (schedule, now) *)

AllScheduleTypes == {"once", "daily", "weekly", "monthly", "cron"}
CalcTimes == {Time(0, 0, 0), Time(9, 0, 0), Time(9, 0, 30), Time(23, 59, 0)}
CalcDates == {None, Some(Date(2024, 1, 1)), Some(Date(2024, 1, 2)), Some(Date(2025, 1, 1))}
NowDates == {Date(2024, 1, 1), Date(2024, 1, 7), Date(2024, 1, 31), Date(2024, 2, 29),
             Date(2024, 12, 1), Date(2024, 12, 31), Date(2025, 1, 1)}
NowTimes == {Time(0, 0, 0), Time(8, 0, 0), Time(9, 0, 0), Time(9, 0, 15),
             Time(9, 1, 0), Time(21, 0, 0), Time(23, 59, 59)}
CalcNows == {Ordinal(d.year, d.month, d.day) * SecondsPerDay + TimeOfDay(t) :
                d \in NowDates, t \in NowTimes}
\* cron_expression: "minute hour day month weekday"
CronExpressions == {"0 9 * * *", "30 21 * * *"}
CronFor(type) == IF type = "cron" THEN CronExpressions ELSE {""}

CalcInit ==
    /\ clock \in CalcNows
    /\ executions = <<>>
    /\ playbooks = [pb \in PlaybookIds |-> [execution_count |-> 0, success_count |-> 0]]
    /\ queue = <<>>
    /\ reqs = [r \in Reqs |-> IdleReq]
    /\ workers = [w \in Workers |-> IdleWorker]
    /\ runs = [i \in 1..(MaxSubmissions + MaxScheduled) |-> 0]
    /\ \E type \in AllScheduleTypes, tm \in CalcTimes, date \in CalcDates :
         \E cron \in CronFor(type) :
           schedules = [i \in ScheduleIds |->
               NewSchedule("report", type, tm, date, cron, None)]
    /\ ticks = [i \in Schedulers |-> IdleTick]
    /\ fired = <<>>
    /\ calc = NoCall
    /\ NoJobs
    /\ tmpdirs = {}
    /\ launch_call = NoLaunchCall
    /\ validation = NoValidation

CalcNext == \E sid \in ScheduleIds : CalcApply(sid)

CalcSpec == CalcInit /\ [][CalcNext]_vars

-----------------------------------------------------------------------------
(* The Tower adapter: launches, the Tower server, refresh and cancel requests *)

TowerInit ==
    /\ clock = 0
    /\ executions = <<>>
    /\ playbooks = [pb \in PlaybookIds |-> [execution_count |-> 0, success_count |-> 0]]
    /\ queue = <<>>
    /\ reqs = [r \in Reqs |-> IdleReq]
    /\ workers = [w \in Workers |-> IdleWorker]
    /\ runs = [i \in 1..(MaxSubmissions + MaxScheduled) |-> 0]
    /\ schedules = [i \in ScheduleIds |->
           NewSchedule("restart", "daily", Time(0, 0, 0), None, "", None)]
    /\ ticks = [i \in Schedulers |-> IdleTick]
    /\ fired = <<>>
    /\ calc = NoCall
    /\ NoJobs
    /\ tmpdirs = {}
    /\ launch_call = NoLaunchCall
    /\ validation = NoValidation

TowerNext ==
    \/ \E u \in Users, t \in JobTemplateIds : LaunchJobTemplate(u, t)
    \/ \E l \in launches : LaunchAccepted(l)
    \/ \E l \in launches : LaunchJobTemplateFails(l)
    \/ \E j \in 1..MaxJobs : TowerStart(j)
    \/ \E j \in 1..MaxJobs : TowerCancel(j)
    \/ \E j \in 1..MaxJobs, st \in {"successful", "failed"}, out \in TowerOutputs :
           TowerFinish(j, st, out)
    \/ \E r \in JobReqs, u \in Users, pk \in JobIds : RefreshLoad(r, u, pk)
    \/ \E r \in JobReqs : RefreshUpdate(r)
    \/ \E r \in JobReqs : RefreshUnreachable(r)
    \/ \E r \in JobReqs, code \in {200, 404} : RefreshFetch(r, code)
    \/ \E r \in JobReqs : RefreshFetchFails(r)
    \/ \E r \in JobReqs, u \in Users, pk \in JobIds : CancelJobLoad(r, u, pk)
    \/ \E r \in JobReqs : CancelJobFinish(r)
    \/ \E r \in JobReqs : CancelJobRefused(r)
    \/ Advance

TowerSpec == TowerInit /\ [][TowerNext]_vars

-----------------------------------------------------------------------------
(* validate_variables as a function of (variables, required_vars) *)

VarNames == {"region", "env", "zone"}
SuppliedVars ==
    {DictVars(k) : k \in SUBSET VarNames} \cup {StrDictVars(k) : k \in SUBSET VarNames}
      \cup {StrOtherVars, StrBadVars, OtherVars}
RequiredVars ==
    {<<>>, <<"region">>, <<"env">>, <<"region", "env">>, <<"env", "region">>,
     <<"zone", "region", "env">>}

ValidateInit ==
    /\ clock = 0
    /\ executions = <<>>
    /\ playbooks = [pb \in PlaybookIds |-> [execution_count |-> 0, success_count |-> 0]]
    /\ queue = <<>>
    /\ reqs = [r \in Reqs |-> IdleReq]
    /\ workers = [w \in Workers |-> IdleWorker]
    /\ runs = [i \in 1..(MaxSubmissions + MaxScheduled) |-> 0]
    /\ schedules = [i \in ScheduleIds |->
           NewSchedule("restart", "daily", Time(0, 0, 0), None, "", None)]
    /\ ticks = [i \in Schedulers |-> IdleTick]
    /\ fired = <<>>
    /\ calc = NoCall
    /\ NoJobs
    /\ tmpdirs = {}
    /\ launch_call = NoLaunchCall
    /\ \E v \in SuppliedVars, rv \in RequiredVars :
           validation = [NoValidation EXCEPT !.variables = v, !.required_vars = rv]

ValidateNext == ValidateApply

ValidateSpec == ValidateInit /\ [][ValidateNext]_vars

-----------------------------------------------------------------------------
(* launch_data as a function of (survey_answers, extra_vars) *)

SurveyVariables == {"env", "region", "zone"}
\* form.get_survey_answers(): a dict of the answers
SurveyAnswers == {DictArg([k \in keys |-> "answer"]) : keys \in SUBSET SurveyVariables}
\* form.get_launch_parameters(): no extra_vars, or the decoded JSON text
ExtraVars ==
    {NoneArg, OtherArg}
      \cup {DictArg([k \in keys |-> "extra"]) : keys \in SUBSET SurveyVariables}

LaunchDataInit ==
    /\ clock = 0
    /\ executions = <<>>
    /\ playbooks = [pb \in PlaybookIds |-> [execution_count |-> 0, success_count |-> 0]]
    /\ queue = <<>>
    /\ reqs = [r \in Reqs |-> IdleReq]
    /\ workers = [w \in Workers |-> IdleWorker]
    /\ runs = [i \in 1..(MaxSubmissions + MaxScheduled) |-> 0]
    /\ schedules = [i \in ScheduleIds |->
           NewSchedule("restart", "daily", Time(0, 0, 0), None, "", None)]
    /\ ticks = [i \in Schedulers |-> IdleTick]
    /\ fired = <<>>
    /\ calc = NoCall
    /\ NoJobs
    /\ tmpdirs = {}
    /\ validation = NoValidation
    /\ \E s \in SurveyAnswers, e \in ExtraVars :
           launch_call = [NoLaunchCall EXCEPT !.survey_answers = s, !.extra_vars = e]

LaunchDataNext == LaunchData

LaunchDataSpec == LaunchDataInit /\ [][LaunchDataNext]_vars

-----------------------------------------------------------------------------
(* Claims *)

RequiresApproval(e) == PlaybookDef(e.playbook).requires_approval

\* C1: no execution of a playbook that requires approval is running while its
\* approved_by is unset.
C1_RunningIsApproved ==
    \A k \in ExecutionIds :
        (RequiresApproval(executions[k]) /\ executions[k].status = "running")
            => IsSet(executions[k].approved_by)

\* C2: once the status of an execution is terminal, no step changes its status
\* or its result fields.
C2_TerminalIsFinal ==
    [][\A k \in ExecutionIds :
          executions[k].status \in {"completed", "failed", "cancelled", "timeout"}
            => /\ executions'[k].status = executions[k].status
               /\ executions'[k].return_code = executions[k].return_code
               /\ executions'[k].stderr = executions[k].stderr]_vars

StateGraph ==
    {<<"pending", "approved">>, <<"approved", "running">>,
     <<"running", "completed">>, <<"running", "failed">>, <<"running", "timeout">>,
     <<"pending", "cancelled">>, <<"approved", "cancelled">>}

\* C3: every change of an execution's status is an edge of the state graph.
C3_FollowsStateGraph ==
    [][\A k \in ExecutionIds :
          executions'[k].status # executions[k].status
            => <<executions[k].status, executions'[k].status>> \in StateGraph]_vars

\* C4: whatever the interleaving of approve requests, the runner process is
\* started at most once for an execution.
C4_StartedAtMostOnce == \A k \in ExecutionIds : runs[k] <= 1

Rejected(q) ==
    \/ q.op = "approve" /\ q.execution.status # "pending"
    \/ q.op = "cancel" /\ q.execution.status \notin {"pending", "approved"}

\* C5: an approve that reads an execution that is not pending, and a cancel
\* that reads one that is neither pending nor approved, answers with an error,
\* changes no execution and dispatches no task.
C5_RejectedChangesNothing ==
    [][\A r \in Reqs :
          (reqs[r].pc = "loaded" /\ reqs'[r].pc = "done" /\ Rejected(reqs[r]))
            => /\ reqs'[r].resp \in {400, 403}
               /\ executions' = executions
               /\ queue' = queue]_vars

\* C5 witness: a cancel of a completed execution was answered with 400.
C5_Witness ==
    \E r \in Reqs :
        /\ reqs[r].pc = "done" /\ reqs[r].op = "cancel"
        /\ reqs[r].execution.status = "completed"
        /\ reqs[r].resp = 400

RECURSIVE Range(_)
Range(seq) == IF seq = <<>> THEN {} ELSE {Head(seq)} \cup Range(Tail(seq))

\* C6: every execution created by a user submission belongs to a user the
\* playbook permits and carries all required variables of the playbook.
C6_SubmissionsAreChecked ==
    \A k \in ExecutionIds :
        LET e == executions[k]
            p == PlaybookDef(e.playbook)
        IN  e.execution_id[1] = "uuid"
              => /\ (p.allowed_users = {} \/ e.executor \in p.allowed_users)
                 /\ e.variables.json = "dict"
                 /\ Range(p.required_variables) \subseteq e.variables.keys

\* C7: with concurrent scheduler runs, each due occurrence (schedule, next_run)
\* of a daily schedule is dispatched at most once.
C7_OccurrenceFiresOnce ==
    \A a, b \in 1..Len(fired) :
        (/\ fired[a] = fired[b]
         /\ fired[a].dispatched
         /\ schedules[fired[a].schedule].schedule_type = "daily") => a = b

ScheduledFor(sid) ==
    {k \in ExecutionIds : /\ executions[k].execution_id[1] = "scheduled"
                          /\ executions[k].execution_id[2] = sid}

\* C8: run_count of a schedule equals the number of executions created for it.
C8_RunCountMatchesExecutions ==
    \A sid \in ScheduleIds :
        schedules[sid].run_count = Cardinality(ScheduledFor(sid))

\* C9: for a daily, weekly, monthly or cron schedule calculate_next_run
\* returns a time strictly later than now.
C9_NextRunIsLater ==
    \A sid \in ScheduleIds :
        (calc.pc = "done"
           /\ schedules[sid].schedule_type \in {"daily", "weekly", "monthly", "cron"})
          => IsSet(calc.result) /\ Val(calc.result) > clock

\* C10: whatever a job printed, its output is obtained from Tower at most once
\* however often its status is refreshed.
C10_OutputFetchedOnce == \A j \in JobIds : http[j].fetched <= 1

TerminalJob == {"successful", "failed", "error", "canceled"}

\* C11: once the status of a job execution is terminal, no step changes it.
C11_TerminalJobStatusIsFinal ==
    [][\A j \in JobIds :
          jobs[j].status \in TerminalJob => jobs'[j].status = jobs[j].status]_vars

\* a cancel request that is answered in this step
CancelAnswered(r) ==
    jreqs[r].op = "cancel" /\ jreqs[r].pc = "loaded" /\ jreqs'[r].pc = "done"

C13_LaunchOutcomeIsRecorded ==
    [][\A l \in launches :
          l \notin launches' =>
            /\ http'[l.pk].launch \in {"raised", "returned"}
            /\ http'[l.pk].launch = "raised"
                 => /\ jobs'[l.pk].status = "error"
                    /\ jobs'[l.pk].result_stderr # ""
                    /\ ~IsSet(jobs'[l.pk].tower_job_id)
                    /\ tower' = tower
            /\ http'[l.pk].launch = "returned"
                 => /\ jobs'[l.pk].status = "waiting"
                    /\ jobs'[l.pk].tower_job_id = Some(Len(tower'))
                    /\ Len(tower') = Len(tower) + 1]_vars

\* C13 witness: a launch was refused and its row has status error.
C13_Witness ==
    \E j \in JobIds :
        /\ http[j].launch = "raised"
        /\ jobs[j].status = "error"
        /\ jobs[j].result_stderr = "request failed"

\* C14: a failed status request leaves every job execution row unchanged.
C14_FailedPollChangesNothing ==
    [][\A j \in JobIds : http'[j].failed # http[j].failed => jobs' = jobs]_vars

\* C14 witness: after a failed status request a later refresh succeeded and
\* stored the status of the finished job.
C14_Witness ==
    \E r \in JobReqs :
        /\ jreqs[r].pc = "done" /\ jreqs[r].op = "refresh" /\ jreqs[r].resp = 200
        /\ http[jreqs[r].pk].failed >= 1
        /\ jreqs[r].job_execution.status = "successful"
        /\ jobs[jreqs[r].pk].status = "successful"

C16_LaunchWaitsForApproval ==
    \A j \in JobIds :
        (JobTemplateDef(jobs[j].job_template).requires_approval
           /\ ~IsSet(jobs[j].approved_by))
          => jobs[j].status = "pending" /\ http[j].posts = 0

\* C17: no run of a playbook returns and leaves its temporary directory.
C17_TempDirIsRemoved == tmpdirs = {}

\* C18: a run whose process exits with return code 0 ends completed, one whose
\* process exits with another code ends failed, one that runs into the timeout
\* ends with status timeout; the return code is stored, and every completed
\* execution has return code 0.
C18_StatusFollowsReturnCode ==
    [][/\ \A w \in Workers, rc \in ReturnCodes :
             RunExit(w, rc) =>
               /\ executions'[workers[w].pk].return_code = Some(rc)
               /\ executions'[workers[w].pk].status =
                      (IF rc = 0 THEN "completed" ELSE "failed")
       /\ \A w \in Workers :
             RunTimeout(w) => executions'[workers[w].pk].status = "timeout"
       /\ \A k \in 1..Len(executions') :
             executions'[k].status = "completed" => executions'[k].return_code = Some(0)
      ]_vars

\* C18 witness: one execution ended completed with return code 0 after a run,
\* and a second run of it ended failed with return code 2.
C18_Witness ==
    \E k \in ExecutionIds :
        /\ runs[k] = 2
        /\ executions[k].status = "failed"
        /\ executions[k].return_code = Some(2)
        /\ playbooks[executions[k].playbook].success_count = 1

\* the keys of a supplied value: those of the mapping it is or decodes to
SuppliedKeys(variables) == IF variables.json = "dict" THEN variables.keys ELSE {}

\* C19 as stated: the result is Ok exactly when every required variable is a
\* key of the supplied value, and every other result names exactly the
\* required variables that are missing.
C19_NamesEveryMissingVariable ==
    validation.pc = "done" =>
      LET required == Range(validation.required_vars)
          keys == SuppliedKeys(validation.variables)
          result == validation.result
      IN  /\ result.ok <=> required \subseteq keys
          /\ ~result.ok => Range(result.missing) = required \ keys

\* C19 amended: the result is Ok exactly when every required variable is a key
\* of the supplied value; for a mapping, or a text that decodes to one, every
\* other result names exactly the required variables that are missing; for any
\* other supplied value it is a violation of the format that names no variable.
C19_NamesEveryMissingOfAMapping ==
    validation.pc = "done" =>
      LET required == Range(validation.required_vars)
          keys == SuppliedKeys(validation.variables)
          result == validation.result
      IN  /\ result.ok <=> required \subseteq keys
          /\ result.ok => result.missing = <<>>
          /\ (~result.ok /\ validation.variables.json = "dict")
               => /\ result.message = "missing"
                  /\ Range(result.missing) = required \ keys
                  /\ Len(result.missing) = Cardinality(required \ keys)
          /\ (~result.ok /\ validation.variables.json # "dict")
               => /\ result.message \in {"not_json", "not_dict"}
                  /\ result.missing = <<>>

\* C19 witness: two of three required variables are missing and both are named.
C19_Witness ==
    /\ validation.pc = "done"
    /\ validation.required_vars = <<"zone", "region", "env">>
    /\ validation.variables = DictVars({"region"})
    /\ validation.result.missing = <<"zone", "env">>

\* C20: for a daily schedule the result is the earliest time strictly after now
\* whose time of day is scheduled_time: today at scheduled_time when now is
\* before it, otherwise tomorrow at scheduled_time.
C20_DailyIsNextOccurrence ==
    \A sid \in ScheduleIds :
        (calc.pc = "done" /\ schedules[sid].schedule_type = "daily") =>
          LET today == (clock \div SecondsPerDay) * SecondsPerDay
                         + TimeOfDay(schedules[sid].scheduled_time)
          IN  calc.result = Some(IF clock < today THEN today ELSE today + SecondsPerDay)

\* C21: for a weekly schedule the result is a Monday at scheduled_time, later
\* than now, and no Monday at scheduled_time lies between now and the result.
C21_WeeklyIsNextMonday ==
    \A sid \in ScheduleIds :
        (calc.pc = "done" /\ schedules[sid].schedule_type = "weekly") =>
          /\ IsSet(calc.result)
          /\ LET next_run == Val(calc.result)
             IN  /\ weekday(next_run) = 0
                 /\ next_run % SecondsPerDay = TimeOfDay(schedules[sid].scheduled_time)
                 /\ next_run > clock
                 /\ next_run - 7 * SecondsPerDay <= clock

\* the first day of the month after the month of t, at 00:00:00
FirstOfNextMonth(t) ==
    LET dt == DateTime(t)
    IN  IF dt.month = 12
        THEN Ordinal(dt.year + 1, 1, 1) * SecondsPerDay
        ELSE Ordinal(dt.year, dt.month + 1, 1) * SecondsPerDay

\* C22: for a monthly schedule the result is the 1st of the next calendar month
\* at scheduled_time, except that on the 1st of a month before scheduled_time
\* it is that same day at scheduled_time.
C22_MonthlyIsFirstOfMonth ==
    \A sid \in ScheduleIds :
        (calc.pc = "done" /\ schedules[sid].schedule_type = "monthly") =>
          LET at == TimeOfDay(schedules[sid].scheduled_time)
              today == (clock \div SecondsPerDay) * SecondsPerDay
          IN  calc.result =
                Some(IF DateTime(clock).day = 1 /\ clock < today + at
                     THEN today + at
                     ELSE FirstOfNextMonth(clock) + at)

\* the minute and the hour of an expression "minute hour * * *"
CronFields(cron) ==
    IF cron = "0 9 * * *" THEN Time(9, 0, 0) ELSE Time(21, 30, 0)

\* C23: for a cron schedule the result is the earliest time after now that
\* matches cron_expression: for "minute hour * * *" the next time of day
\* hour:minute:00.
C23_CronFollowsExpression ==
    \A sid \in ScheduleIds :
        (calc.pc = "done" /\ schedules[sid].schedule_type = "cron") =>
          LET at == TimeOfDay(CronFields(schedules[sid].cron_expression))
              today == (clock \div SecondsPerDay) * SecondsPerDay + at
          IN  calc.result = Some(IF clock < today THEN today ELSE today + SecondsPerDay)

C25_ExtraVarsTakePrecedence ==
    launch_call.pc = "posted" =>
      LET sent   == Val(launch_call.launch_data).extra_vars
          survey == launch_call.survey_answers.items
          extra  == launch_call.extra_vars.items
      IN  /\ DOMAIN sent = DOMAIN survey \cup DOMAIN extra
          /\ \A k \in DOMAIN extra : sent[k] = extra[k]
          /\ \A k \in DOMAIN survey \ DOMAIN extra : sent[k] = survey[k]

\* C25 witness: env is answered in the survey and given in extra_vars, region
\* only answered: the request carries the extra value of env and the answer
\* for region.
C25_Witness ==
    /\ launch_call.pc = "posted"
    /\ DOMAIN launch_call.survey_answers.items = {"env", "region"}
    /\ DOMAIN launch_call.extra_vars.items = {"env"}
    /\ Val(launch_call.launch_data).extra_vars["env"] = "extra"
    /\ Val(launch_call.launch_data).extra_vars["region"] = "answer"

\* C26: an execution that is running, completed, failed or timeout has
\* started_at set, one in a terminal status has completed_at set, and
\* completed_at is not earlier than started_at when both are set.
C26_TimestampsFollowStatus ==
    \A k \in ExecutionIds :
        LET e == executions[k]
        IN  /\ e.status \in {"running", "completed", "failed", "timeout"}
                 => IsSet(e.started_at)
            /\ e.status \in Terminal => IsSet(e.completed_at)
            /\ (IsSet(e.started_at) /\ IsSet(e.completed_at))
                 => Val(e.completed_at) >= Val(e.started_at)

\* C27: when workers take every queued task and every run ends, an execution
\* that is approved later reaches a terminal status.
C27_ApprovedIsDispatched ==
    \A k \in 1..MaxSubmissions :
        (k \in ExecutionIds /\ executions[k].status = "approved")
          ~> (k \in ExecutionIds /\ executions[k].status \in Terminal)

\* C28: at most one execution is created for a schedule of type once, and
\* once the schedule was fired its next_run is None.
C28_OnceFiresOnce ==
    \A sid \in ScheduleIds :
        schedules[sid].schedule_type = "once" =>
          /\ Cardinality(ScheduledFor(sid)) <= 1
          /\ schedules[sid].run_count >= 1 => ~IsSet(schedules[sid].next_run)

\* C29: a job execution that is waiting, running, successful, failed or
\* canceled has a tower_job_id; one without a tower_job_id is pending, or is
\* in error after a launch request that failed.
C29_ActiveJobHasTowerId ==
    \A j \in JobIds :
        /\ jobs[j].status \in {"waiting", "running", "successful", "failed", "canceled"}
             => IsSet(jobs[j].tower_job_id)
        /\ ~IsSet(jobs[j].tower_job_id)
             => \/ jobs[j].status = "pending"
                \/ jobs[j].status = "error" /\ http[j].launch = "raised"

\* C29 witness: a cancel of a job execution was accepted by Tower and the
\* canceled row has its tower_job_id.
C29_Witness ==
    \E j \in JobIds :
        /\ jobs[j].status = "canceled"
        /\ IsSet(jobs[j].tower_job_id)
        /\ tower[Val(jobs[j].tower_job_id)].cancel_flag
        /\ http[j].cancels >= 1

\* the executions of a playbook whose process exited: they have a return code
ExitedRuns(pb) ==
    {k \in ExecutionIds : executions[k].playbook = pb /\ IsSet(executions[k].return_code)}

\* C30: execution_count of a playbook is the number of its executions whose
\* process exited, success_count the number of those that are completed, and
\* success_count <= execution_count.
C30_CountsMatchRuns ==
    \A pb \in PlaybookIds :
        /\ playbooks[pb].execution_count = Cardinality(ExitedRuns(pb))
        /\ playbooks[pb].success_count =
               Cardinality({k \in ExitedRuns(pb) : executions[k].status = "completed"})
        /\ playbooks[pb].success_count <= playbooks[pb].execution_count

====
